---- MODULE Spec2Model ----
(***************************************************************************)
(* A model of the othellot board engine (othellot/models/othello.py), its  *)
(* agent (othellot/models/agents.py), its cursor (othellot/interfaces/     *)
(* cui.py) and the game loop of tests/ctrls_cui_ac.py.                     *)
(*                                                                         *)
(* A Grid is identified with its position <<row, col>>: a board owns       *)
(* exactly one Grid per position of its domain.                            *)
(***************************************************************************)
EXTENDS Integers, Sequences, FiniteSets, TLC

VARIABLES
    width,              \* Board.width
    height,             \* Board.height
    state,              \* Grid.state of every grid of Board.grids
    neighbors,          \* Grid.neighbors of every grid: relative position -> grid
    available_grids,    \* Board.available_grids
    expected_captives,  \* Board.expected_captives
    last,               \* the Board method called last, its arguments and result
    ncalls,             \* how many Board methods a free client has called
    pc,                 \* position of the main thread in main() of a game loop
    nturns,             \* how many turns the game loop has begun
    cursor_pos,         \* Cursor.pos
    disk_color,         \* Cursor.disk_color
    status,             \* the local variable status of main()
    agent_state,        \* BaseAgent.state
    target_grid,        \* BaseAgent.target_grid (NoGrid models None)
    thread_pc,          \* position of the thread running BaseAgent.start
    walk                \* the call of calculate_captives in progress: its locals

vars == <<width, height, state, neighbors, available_grids, expected_captives,
          last, ncalls, pc, nturns, cursor_pos, disk_color, status,
          agent_state, target_grid, thread_pc, walk>>

loop_vars == <<pc, nturns, cursor_pos, disk_color, status, agent_state,
               target_grid, thread_pc, walk>>

-----------------------------------------------------------------------------
(* Bounds of the model *)

\* the largest width and height of the boards Init draws
MaxSide == 3

\* the largest board width a player of the game loops types
MaxWidth == 4

\* the largest board height a player of the game loops types
MaxHeight == 3

\* the number of Board method calls a behaviour of Spec makes at most
MaxCalls == 5

\* the largest height of the one-column boards InitSecondMove draws
MaxLength == 5

\* the largest number of stray Grid objects InitWalk draws
MaxGrids == 3

\* the largest number of grids of a board InitGrid draws
MaxCells == 4

\* the number of turns a game loop begins at most
MaxTurns == 3

\* the width and the height main() proposes
DefaultSize == 8

-----------------------------------------------------------------------------
(* Grid states and colours *)

states_of_disks == {"none", "dark", "light", "available"}

disk_color_list == {"dark", "light"}

disk_color_permutation(client) == IF client = "dark" THEN "light" ELSE "dark"

\* the values a caller passes as client: the two colours, the two other
\* states of a grid, and a string that is no state at all
client_values == {"dark", "light", "none", "available", "red"}

\* the test of client at the head of suggest_available_grids and of
\* suggest_expected_captives (a ValueError)
client_is_rejected(client) == client \notin disk_color_list

\* the test of the setter of Grid.state (a ValueError)
setter_raises(value) == value \notin states_of_disks

status_f == "failed to place the disk"

status_s == "succeeded in placing the disk"

status_f1 == "still busy"

status_f2 == "target_grid is not a grid"

\* BaseAgent.target_grid when it holds None
NoGrid == <<-1, -1>>

\* Board.domain as a set
domain == (0 .. height - 1) \X (0 .. width - 1)

\* the k-th element of Board.domain, in the order the loops of Board visit
\* it (row-major), k = 1 .. domain_len
domain_at(k) == <<(k - 1) \div width, (k - 1) % width>>

domain_len == height * width

neighborhood ==
    {d \in (-1 .. 1) \X (-1 .. 1) : d[1] # 0 \/ d[2] # 0}

is_consist_of(row_number, column_number) ==
    /\ row_number \in 0 .. height - 1
    /\ column_number \in 0 .. width - 1

-----------------------------------------------------------------------------
(* Grid.add_neighbor and Board.linking *)

\* an add_neighbor that appends: the key is the number of neighbours the
\* grid holds already
add_neighbor_appending(self_neighbors, grid, neighbor) ==
    (<<0, Cardinality(DOMAIN self_neighbors)>> :> neighbor) @@ self_neighbors

\* an add_neighbor that keys the neighbour by its own position
add_neighbor_by_position(self_neighbors, grid, neighbor) ==
    (neighbor :> neighbor) @@ self_neighbors

\* self.neighbors after self.add_neighbor(neighbor), for Grid objects whose
\* pos are self_pos and neighbor_pos
add_neighbor_at(self_neighbors, self_pos, neighbor, neighbor_pos) ==
    LET relative_pos == <<neighbor_pos[1] - self_pos[1],
                          neighbor_pos[2] - self_pos[2]>>
    IN  (relative_pos :> neighbor) @@ self_neighbors

\* self.neighbors of `grid` after grid.add_neighbor(neighbor)
add_neighbor(self_neighbors, grid, neighbor) ==
    LET relative_pos == <<neighbor[1] - grid[1], neighbor[2] - grid[2]>>
    IN  (relative_pos :> neighbor) @@ self_neighbors

\* a linking whose neighbourhood starts at row offset 0 (range(0, 2)), so
\* that no grid is linked to the row above it
RECURSIVE link_grid_downward(_, _, _)
link_grid_downward(self_neighbors, grid, todo) ==
    IF todo = {} THEN self_neighbors
    ELSE LET d == CHOOSE x \in todo : TRUE
             n_row == grid[1] + d[1]
             n_col == grid[2] + d[2]
         IN  IF d[1] < 0 \/ ~is_consist_of(n_row, n_col)
             THEN link_grid_downward(self_neighbors, grid, todo \ {d})
             ELSE link_grid_downward(add_neighbor(self_neighbors, grid,
                                                  <<n_row, n_col>>),
                                     grid, todo \ {d})

\* the inner loop of linking over the neighbourhood of one grid
RECURSIVE link_grid(_, _, _)
link_grid(self_neighbors, grid, todo) ==
    IF todo = {} THEN self_neighbors
    ELSE LET d == CHOOSE x \in todo : TRUE
             n_row == grid[1] + d[1]
             n_col == grid[2] + d[2]
         IN  IF ~is_consist_of(n_row, n_col)
             THEN link_grid(self_neighbors, grid, todo \ {d})
             ELSE link_grid(add_neighbor(self_neighbors, grid,
                                         <<n_row, n_col>>),
                            grid, todo \ {d})

\* the outer loop of linking: every grid of the domain gets its neighbours
linking(nbrs) ==
    [grid \in domain |-> link_grid(nbrs[grid], grid, neighborhood)]

\* Grid.neighbors of every grid right after Board.__init__
no_neighbors == [g \in domain |-> <<>>]

-----------------------------------------------------------------------------
(* Board.calculate_captives *)

\* a scan that keeps what it gathered when it runs off the board
RECURSIVE captives_walk_keeping(_, _, _, _, _, _, _)
captives_walk_keeping(st, client, opponent, target, direction, checked_grids, in_between_opponents) ==
    IF direction \notin DOMAIN neighbors[target]
    THEN in_between_opponents
    ELSE LET neighbor == neighbors[target][direction]
         IN  IF neighbor \in checked_grids
             THEN {}
             ELSE IF st[neighbor] = opponent
             THEN captives_walk_keeping(st, client, opponent, neighbor,
                                        direction,
                                        checked_grids \cup {neighbor},
                                        in_between_opponents \cup {neighbor})
             ELSE IF st[neighbor] = client
             THEN in_between_opponents
             ELSE {}

\* a scan that keeps what it gathered when the run of opponents ends on a
\* grid that holds no disk
RECURSIVE captives_walk_open_ended(_, _, _, _, _, _, _)
captives_walk_open_ended(st, client, opponent, target, direction, checked_grids, in_between_opponents) ==
    IF direction \notin DOMAIN neighbors[target]
    THEN {}
    ELSE LET neighbor == neighbors[target][direction]
         IN  IF neighbor \in checked_grids
             THEN {}
             ELSE IF st[neighbor] = opponent
             THEN captives_walk_open_ended(st, client, opponent, neighbor,
                                           direction,
                                           checked_grids \cup {neighbor},
                                           in_between_opponents \cup {neighbor})
             ELSE in_between_opponents

\* a scan that takes a grid marked 'available' for the far end of a run, as
\* if the mark were a disk of the client
RECURSIVE captives_walk_up_to_a_mark(_, _, _, _, _, _, _)
captives_walk_up_to_a_mark(st, client, opponent, target, direction, checked_grids, in_between_opponents) ==
    IF direction \notin DOMAIN neighbors[target]
    THEN {}
    ELSE LET neighbor == neighbors[target][direction]
         IN  IF neighbor \in checked_grids
             THEN {}
             ELSE IF st[neighbor] = opponent
             THEN captives_walk_up_to_a_mark(st, client, opponent, neighbor,
                                             direction,
                                             checked_grids \cup {neighbor},
                                             in_between_opponents \cup {neighbor})
             ELSE IF st[neighbor] \in {client, "available"}
             THEN in_between_opponents
             ELSE {}

RECURSIVE captives_walk(_, _, _, _, _, _, _)
captives_walk(st, client, opponent, target, direction, checked_grids, in_between_opponents) ==
    IF direction \notin DOMAIN neighbors[target]
    THEN {}                                           \* KeyError
    ELSE LET neighbor == neighbors[target][direction]
         IN  IF neighbor \in checked_grids
             THEN {}
             ELSE IF st[neighbor] = opponent
             THEN captives_walk(st, client, opponent, neighbor, direction,
                                checked_grids \cup {neighbor},
                                in_between_opponents \cup {neighbor})
             ELSE IF st[neighbor] = client
             THEN in_between_opponents
             ELSE {}

calculate_captives(st, client, opponent, grid, direction) ==
    captives_walk(st, client, opponent, grid, direction, {grid}, {})

-----------------------------------------------------------------------------
(* Board.setup *)

\* ceil(n / 2) of math.ceil on a positive integer
ceil_half(n) == (n + 1) \div 2

\* a setup whose try encloses the whole loop over the starting block: the
\* first IndexError, at (c_row, c_col + 1) on a board one column wide, ends
\* the placement
setup_stopping_at_the_edge(st) ==
    LET c_row == ceil_half(height) - 1
        c_col == ceil_half(width) - 1
    IN  [g \in domain |->
            LET i == g[1] - c_row
                j == g[2] - c_col
            IN  IF /\ i \in 0 .. 1
                   /\ j \in 0 .. 1
                   /\ (i = 0 /\ j = 0) \/ c_col + 1 <= width - 1
                THEN (IF (i + j) % 2 = 0 THEN "light" ELSE "dark")
                ELSE "none"]

\* a setup that places the starting block on top of what the grids hold
setup_without_reset(st) ==
    LET c_row == ceil_half(height) - 1
        c_col == ceil_half(width) - 1
    IN  [g \in domain |->
            LET i == g[1] - c_row
                j == g[2] - c_col
            IN  IF i \in 0 .. 1 /\ j \in 0 .. 1
                THEN (IF (i + j) % 2 = 0 THEN "light" ELSE "dark")
                ELSE st[g]]

setup(st) ==
    LET c_row == ceil_half(height) - 1
        c_col == ceil_half(width) - 1
    IN  [g \in domain |->
            LET i == g[1] - c_row
                j == g[2] - c_col
            IN  IF i \in 0 .. 1 /\ j \in 0 .. 1
                THEN (IF (i + j) % 2 = 0 THEN "light" ELSE "dark")
                ELSE "none"]

-----------------------------------------------------------------------------
(* Board.clear_available_grids and Board.suggest_available_grids *)

\* a clear that forgets the grids and only empties the set
clear_leaving_the_marks(st) == st

\* a clear that resets every grid, as the first loop of setup does
clear_taking_the_disks(st) == [g \in domain |-> "none"]

clear_available_grids(st) ==
    [g \in domain |-> IF st[g] = "available" THEN "none" ELSE st[g]]

\* a suggestion that counts the grids it marks itself and leaves the grids
\* that were 'available' already out of the number
RECURSIVE suggest_counting_the_new_marks(_, _, _, _, _)
suggest_counting_the_new_marks(k, st, ag, number_of_available_grids, client) ==
    IF k > domain_len
    THEN [state |-> st, available_grids |-> ag,
          number |-> number_of_available_grids]
    ELSE LET grid == domain_at(k)
             opponent == disk_color_permutation(client)
         IN  IF st[grid] # "none"
             THEN IF st[grid] = "available"
                  THEN suggest_counting_the_new_marks(
                           k + 1, st, ag \cup {grid},
                           number_of_available_grids, client)
                  ELSE suggest_counting_the_new_marks(
                           k + 1, st, ag, number_of_available_grids, client)
             ELSE IF \E d \in neighborhood :
                        calculate_captives(st, client, opponent, grid, d) # {}
                  THEN suggest_counting_the_new_marks(
                           k + 1, [st EXCEPT ![grid] = "available"],
                           ag \cup {grid}, number_of_available_grids + 1,
                           client)
                  ELSE suggest_counting_the_new_marks(
                           k + 1, st, ag, number_of_available_grids, client)

\* a suggestion that counts and collects every grid whose state is not
\* 'none', the disks included
RECURSIVE suggest_counting_the_disks(_, _, _, _, _)
suggest_counting_the_disks(k, st, ag, number_of_available_grids, client) ==
    IF k > domain_len
    THEN [state |-> st, available_grids |-> ag,
          number |-> number_of_available_grids]
    ELSE LET grid == domain_at(k)
             opponent == disk_color_permutation(client)
         IN  IF st[grid] # "none"
             THEN suggest_counting_the_disks(k + 1, st, ag \cup {grid},
                                             number_of_available_grids + 1,
                                             client)
             ELSE IF \E d \in neighborhood :
                        calculate_captives(st, client, opponent, grid, d) # {}
                  THEN suggest_counting_the_disks(
                           k + 1, [st EXCEPT ![grid] = "available"],
                           ag \cup {grid}, number_of_available_grids + 1,
                           client)
                  ELSE suggest_counting_the_disks(k + 1, st, ag,
                                                  number_of_available_grids,
                                                  client)

\* the loop of suggest_available_grids from the k-th grid of the domain on
RECURSIVE suggest_from(_, _, _, _, _)
suggest_from(k, st, ag, number_of_available_grids, client) ==
    IF k > domain_len
    THEN [state |-> st, available_grids |-> ag,
          number |-> number_of_available_grids]
    ELSE LET grid == domain_at(k)
             opponent == disk_color_permutation(client)
         IN  IF st[grid] # "none"
             THEN IF st[grid] = "available"
                  THEN suggest_from(k + 1, st, ag \cup {grid},
                                    number_of_available_grids + 1, client)
                  ELSE suggest_from(k + 1, st, ag,
                                    number_of_available_grids, client)
             ELSE IF \E d \in neighborhood :
                        calculate_captives(st, client, opponent, grid, d) # {}
                  THEN suggest_from(k + 1, [st EXCEPT ![grid] = "available"],
                                    ag \cup {grid},
                                    number_of_available_grids + 1, client)
                  ELSE suggest_from(k + 1, st, ag,
                                    number_of_available_grids, client)

\* a suggestion whose count goes on from the size of the set the earlier
\* calls left
suggest_counting_on(st, ag, client) ==
    suggest_from(1, st, ag, Cardinality(ag), client)

suggest_available_grids(st, ag, client) == suggest_from(1, st, ag, 0, client)

-----------------------------------------------------------------------------
(* Board.suggest_expected_captives *)

\* a preview that adds to what an earlier preview left
suggest_on_top_of_the_preview(st, ec, row_number, column_number, client) ==
    IF ~is_consist_of(row_number, column_number)
    THEN ec
    ELSE LET grid == <<row_number, column_number>>
             opponent == disk_color_permutation(client)
         IN  IF st[grid] # "available"
             THEN {}
             ELSE ec \cup
                  UNION {calculate_captives(st, client, opponent, grid, d) :
                            d \in neighborhood}

\* a preview that looks at the state of the grid before it clears the set
suggest_clearing_late(st, ec, row_number, column_number, client) ==
    IF ~is_consist_of(row_number, column_number)
    THEN ec
    ELSE LET grid == <<row_number, column_number>>
             opponent == disk_color_permutation(client)
         IN  IF st[grid] # "available"
             THEN ec
             ELSE UNION {calculate_captives(st, client, opponent, grid, d) :
                            d \in neighborhood}

suggest_expected_captives(st, ec, row_number, column_number, client) ==
    IF ~is_consist_of(row_number, column_number)
    THEN ec
    ELSE LET grid == <<row_number, column_number>>
             opponent == disk_color_permutation(client)
         IN  IF st[grid] # "available"
             THEN {}
             ELSE UNION {calculate_captives(st, client, opponent, grid, d) :
                            d \in neighborhood}

-----------------------------------------------------------------------------
(* Board.flip_outflanked_disks *)

\* a flip that drops the preview before it looks at the target
flip_dropping_the_preview(st, ag, ec, row_number, column_number, client) ==
    IF ~is_consist_of(row_number, column_number)
    THEN [state |-> st, available_grids |-> ag, expected_captives |-> {},
          status |-> status_f]
    ELSE LET grid == <<row_number, column_number>>
         IN  IF st[grid] # "available"
             THEN [state |-> st, available_grids |-> ag,
                   expected_captives |-> {}, status |-> status_f]
             ELSE [state |->
                       [g \in domain |->
                           IF g = grid \/ g \in ec THEN client
                           ELSE IF st[g] = "available" THEN "none"
                           ELSE st[g]],
                   available_grids |-> {},
                   expected_captives |-> {},
                   status |-> status_s]

\* a flip that places the disk and turns nothing over
flip_placing_only(st, ag, ec, row_number, column_number, client) ==
    IF ~is_consist_of(row_number, column_number)
    THEN [state |-> st, available_grids |-> ag, expected_captives |-> ec,
          status |-> status_f]
    ELSE LET grid == <<row_number, column_number>>
         IN  IF st[grid] # "available"
             THEN [state |-> st, available_grids |-> ag,
                   expected_captives |-> ec, status |-> status_f]
             ELSE [state |->
                       [g \in domain |->
                           IF g = grid THEN client
                           ELSE IF st[g] = "available" THEN "none"
                           ELSE st[g]],
                   available_grids |-> {},
                   expected_captives |-> {},
                   status |-> status_s]

\* a flip that moves a coordinate outside the board to the nearest grid
flip_on_the_clamped_grid(st, ag, ec, row_number, column_number, client) ==
    LET low(x, maximum) == IF x < 0 THEN 0 ELSE IF x > maximum THEN maximum ELSE x
        grid == <<low(row_number, height - 1), low(column_number, width - 1)>>
    IN  IF st[grid] # "available"
        THEN [state |-> st, available_grids |-> ag, expected_captives |-> ec,
              status |-> status_f]
        ELSE [state |->
                  clear_available_grids(
                      [g \in domain |->
                          IF g = grid \/ g \in ec THEN client
                          ELSE st[g]]),
              available_grids |-> {},
              expected_captives |-> {},
              status |-> status_s]

flip_outflanked_disks(st, ag, ec, row_number, column_number, client) ==
    IF ~is_consist_of(row_number, column_number)
    THEN [state |-> st, available_grids |-> ag, expected_captives |-> ec,
          status |-> status_f]
    ELSE LET grid == <<row_number, column_number>>
         IN  IF st[grid] # "available"
             THEN [state |-> st, available_grids |-> ag,
                   expected_captives |-> ec, status |-> status_f]
             ELSE [state |->
                       clear_available_grids(
                           [g \in domain |->
                               IF g = grid \/ g \in ec THEN client
                               ELSE st[g]]),
                   available_grids |-> {},
                   expected_captives |-> {},
                   status |-> status_s]

-----------------------------------------------------------------------------
(* The record of the last call *)

\* `repeated` tells that the call is a suggest_available_grids that follows a
\* suggest_available_grids for the same client
Call(op, row, col, client, returned_status, returned_number) ==
    [op |-> op, row |-> row, col |-> col, client |-> client,
     status |-> returned_status, number |-> returned_number,
     direction |-> <<0, 0>>, captives |-> {},
     repeated |-> /\ op = "suggest_available_grids"
                  /\ returned_status = "none"
                  /\ last.op = op
                  /\ last.status = "none"
                  /\ last.client = client]

NoCall == Call("none", 0, 0, "none", "none", 0)

\* no call of calculate_captives is in progress
NoWalk ==
    [pc |-> "idle", client |-> "none", opponent |-> "none",
     grid |-> <<0, 0>>, direction |-> <<0, 0>>, target_grid |-> <<0, 0>>,
     checked_grids |-> {}, in_between_opponents |-> {}, iterations |-> 0]

\* the coordinates a caller passes: every grid of the board, and positions
\* outside it on each side (negative ones included)
Coordinates ==
    domain \cup {<<-1, -1>>, <<-1, 0>>, <<0, -1>>, <<height, 0>>,
                 <<0, width>>, <<height, width>>}

-----------------------------------------------------------------------------
(* The state after Board(width, height) *)

Init ==
    /\ width \in 1 .. MaxSide
    /\ height \in 1 .. MaxSide
    /\ state = [g \in domain |-> "none"]
    /\ neighbors = no_neighbors
    /\ available_grids = {}
    /\ expected_captives = {}
    /\ last = NoCall
    /\ ncalls = 0
    /\ pc = "start"
    /\ nturns = 0
    /\ cursor_pos = <<0, 0>>
    /\ disk_color = "dark"
    /\ status = "unbound"
    /\ agent_state = "free"
    /\ target_grid = NoGrid
    /\ thread_pc = "idle"
    /\ walk = NoWalk

-----------------------------------------------------------------------------
(* The methods of Board, called by any client in any order *)

Linking ==
    /\ ncalls < MaxCalls
    /\ neighbors' = linking(neighbors)
    /\ last' = Call("linking", 0, 0, "none", "none", 0)
    /\ ncalls' = ncalls + 1
    /\ UNCHANGED <<width, height, state, available_grids, expected_captives>>
    /\ UNCHANGED loop_vars

Setup ==
    /\ ncalls < MaxCalls
    /\ state' = setup(state)
    /\ last' = Call("setup", 0, 0, "none", "none", 0)
    /\ ncalls' = ncalls + 1
    /\ UNCHANGED <<width, height, neighbors, available_grids,
                   expected_captives>>
    /\ UNCHANGED loop_vars

ClearAvailableGrids ==
    /\ ncalls < MaxCalls
    /\ state' = clear_available_grids(state)
    /\ available_grids' = {}
    /\ last' = Call("clear_available_grids", 0, 0, "none", "none", 0)
    /\ ncalls' = ncalls + 1
    /\ UNCHANGED <<width, height, neighbors, expected_captives>>
    /\ UNCHANGED loop_vars

\* suggest_available_grids called with one of the values of clients: a value
\* that is no disk colour raises ValueError before the board is read
SuggestAvailableGridsFor(clients) ==
    /\ ncalls < MaxCalls
    /\ \E client \in clients :
        IF client_is_rejected(client)
        THEN /\ last' = Call("suggest_available_grids", 0, 0, client,
                             "ValueError", 0)
             /\ UNCHANGED <<state, available_grids>>
        ELSE LET r == suggest_available_grids(state, available_grids, client)
             IN  /\ state' = r.state
                 /\ available_grids' = r.available_grids
                 /\ last' = Call("suggest_available_grids", 0, 0, client,
                                 "none", r.number)
    /\ ncalls' = ncalls + 1
    /\ UNCHANGED <<width, height, neighbors, expected_captives>>
    /\ UNCHANGED loop_vars

SuggestAvailableGrids == SuggestAvailableGridsFor(disk_color_list)

ClearExpectedCaptives ==
    /\ ncalls < MaxCalls
    /\ expected_captives' = {}
    /\ last' = Call("clear_expected_captives", 0, 0, "none", "none", 0)
    /\ ncalls' = ncalls + 1
    /\ UNCHANGED <<width, height, state, neighbors, available_grids>>
    /\ UNCHANGED loop_vars

\* suggest_expected_captives: the test of the coordinate comes first, so a
\* call outside the board returns whatever client is
SuggestExpectedCaptivesFor(clients) ==
    /\ ncalls < MaxCalls
    /\ \E pos \in Coordinates, client \in clients :
        IF is_consist_of(pos[1], pos[2]) /\ client_is_rejected(client)
        THEN /\ last' = Call("suggest_expected_captives", pos[1], pos[2],
                             client, "ValueError", 0)
             /\ UNCHANGED expected_captives
        ELSE /\ expected_captives' =
                    suggest_expected_captives(state, expected_captives,
                                              pos[1], pos[2], client)
             /\ last' = Call("suggest_expected_captives", pos[1], pos[2],
                             client, "none", 0)
    /\ ncalls' = ncalls + 1
    /\ UNCHANGED <<width, height, state, neighbors, available_grids>>
    /\ UNCHANGED loop_vars

SuggestExpectedCaptives == SuggestExpectedCaptivesFor(disk_color_list)

\* flip_outflanked_disks does not test client: the first assignment,
\* grid.state = client, goes through the setter of Grid.state, which raises
\* ValueError for a string that is none of the four states
FlipOutflankedDisksFor(clients) ==
    /\ ncalls < MaxCalls
    /\ \E pos \in Coordinates, client \in clients :
        IF /\ is_consist_of(pos[1], pos[2])
           /\ state[pos] = "available"
           /\ setter_raises(client)
        THEN /\ last' = Call("flip_outflanked_disks", pos[1], pos[2], client,
                             "ValueError", 0)
             /\ UNCHANGED <<state, available_grids, expected_captives>>
        ELSE LET r == flip_outflanked_disks(state, available_grids,
                                            expected_captives, pos[1], pos[2],
                                            client)
             IN  /\ state' = r.state
                 /\ available_grids' = r.available_grids
                 /\ expected_captives' = r.expected_captives
                 /\ last' = Call("flip_outflanked_disks", pos[1], pos[2],
                                 client, r.status, 0)
    /\ ncalls' = ncalls + 1
    /\ UNCHANGED <<width, height, neighbors>>
    /\ UNCHANGED loop_vars

FlipOutflankedDisks == FlipOutflankedDisksFor(disk_color_list)

Next ==
    \/ Linking
    \/ Setup
    \/ ClearAvailableGrids
    \/ SuggestAvailableGrids
    \/ ClearExpectedCaptives
    \/ SuggestExpectedCaptives
    \/ FlipOutflankedDisks

Spec == Init /\ [][Next]_vars

\* the one-column boards
column_sizes == {1} \X (1 .. MaxLength)

\* a board after its first move: linking(), setup(),
\* suggest_available_grids(client) and a successful
\* flip_outflanked_disks(row, col, client) on one of the suggested grids, with
\* or without suggest_expected_captives(row, col, client) before it; ncalls
\* counts the calls made from there on
InitSecondMove ==
    /\ \E size \in column_sizes : width = size[1] /\ height = size[2]
    /\ neighbors = linking(no_neighbors)
    /\ \E client \in disk_color_list, previewed \in BOOLEAN :
        LET s == suggest_available_grids(setup([g \in domain |-> "none"]),
                                         {}, client)
        IN  \E grid \in s.available_grids :
              LET ec == IF previewed
                        THEN suggest_expected_captives(s.state, {}, grid[1],
                                                       grid[2], client)
                        ELSE {}
                  r == flip_outflanked_disks(s.state, s.available_grids, ec,
                                             grid[1], grid[2], client)
              IN  /\ state = r.state
                  /\ available_grids = r.available_grids
                  /\ expected_captives = r.expected_captives
                  /\ last = Call("flip_outflanked_disks", grid[1], grid[2],
                                 client, r.status, 0)
    /\ ncalls = 0
    /\ pc = "start"
    /\ nturns = 0
    /\ cursor_pos = <<0, 0>>
    /\ disk_color = "dark"
    /\ status = "unbound"
    /\ agent_state = "free"
    /\ target_grid = NoGrid
    /\ thread_pc = "idle"
    /\ walk = NoWalk

SpecSecondMove == InitSecondMove /\ [][Next]_vars

\* the same methods called with any of client_values
NextClient ==
    \/ Linking
    \/ Setup
    \/ ClearAvailableGrids
    \/ SuggestAvailableGridsFor(client_values)
    \/ ClearExpectedCaptives
    \/ SuggestExpectedCaptivesFor(client_values)
    \/ FlipOutflankedDisksFor(client_values)

SpecClient == Init /\ [][NextClient]_vars

-----------------------------------------------------------------------------
(* calculate_captives called once on a linked board whose grids hold any   *)
(* of the states the Grid.state setter accepts.  InitGrid draws the board  *)
(* and the arguments of the call (kept in last, with op "arguments");      *)
(* CalculateCaptives makes the call and records what it returns.           *)

InitGrid ==
    /\ width \in 1 .. MaxCells
    /\ height \in 1 .. MaxCells
    /\ width * height <= MaxCells
    /\ state \in [domain -> states_of_disks]
    /\ neighbors = linking(no_neighbors)
    /\ available_grids = {}
    /\ expected_captives = {}
    /\ \E client \in disk_color_list, grid \in domain,
          direction \in neighborhood :
        last = [Call("arguments", grid[1], grid[2], client, "none", 0)
                EXCEPT !.direction = direction]
    /\ ncalls = 0
    /\ pc = "start"
    /\ nturns = 0
    /\ cursor_pos = <<0, 0>>
    /\ disk_color = "dark"
    /\ status = "unbound"
    /\ agent_state = "free"
    /\ target_grid = NoGrid
    /\ thread_pc = "idle"
    /\ walk = NoWalk

CalculateCaptives ==
    /\ last.op = "arguments"
    /\ last' = [last EXCEPT
                    !.op = "calculate_captives",
                    !.captives =
                        calculate_captives(
                            state, last.client,
                            disk_color_permutation(last.client),
                            <<last.row, last.col>>, last.direction)]
    /\ UNCHANGED <<width, height, state, neighbors, available_grids,
                   expected_captives, ncalls>>
    /\ UNCHANGED loop_vars

NextGrid == CalculateCaptives

SpecGrid == InitGrid /\ [][NextGrid]_vars

-----------------------------------------------------------------------------
(* calculate_captives on Grid objects that belong to no board and are      *)
(* wired by add_neighbor calls in any order.  InitWalk draws width stray   *)
(* objects, each built as Grid(0, 0, state); the object <<0, j>> is the    *)
(* j-th of them.  As they share one position, every add_neighbor call      *)
(* files the neighbour under the key (0, 0), and the calls can close       *)
(* cycles of any length, which no graph of grids at distinct positions     *)
(* can.  The while loop of calculate_captives runs one iteration a step.   *)

\* Grid.pos of a stray object
stray_pos(grid) == <<0, 0>>

\* the directions the walks are asked for: the key (0, 0), and a key no
\* stray object holds
walk_directions == {<<0, 0>>, <<0, 1>>}

InitWalk ==
    /\ width \in 1 .. MaxGrids
    /\ height = 1
    /\ state \in [domain -> {"none"} \cup disk_color_list]
    /\ neighbors = no_neighbors
    /\ available_grids = {}
    /\ expected_captives = {}
    /\ last = NoCall
    /\ ncalls = 0
    /\ pc = "start"
    /\ nturns = 0
    /\ cursor_pos = <<0, 0>>
    /\ disk_color = "dark"
    /\ status = "unbound"
    /\ agent_state = "free"
    /\ target_grid = NoGrid
    /\ thread_pc = "idle"
    /\ walk = NoWalk

\* grid.add_neighbor(neighbor) for any two of the objects
AddNeighbor ==
    /\ walk.pc = "idle"
    /\ \E grid \in domain, neighbor \in domain :
        neighbors' = [neighbors EXCEPT
                         ![grid] = add_neighbor_at(@, stray_pos(grid), neighbor,
                                                   stray_pos(neighbor))]
    /\ UNCHANGED <<width, height, state, available_grids, expected_captives,
                   last, ncalls>>
    /\ UNCHANGED loop_vars

\* calculate_captives(client, opponent, grid, direction) up to the loop:
\* checked_grids = {grid}, target_grid = grid
CalculateCaptivesBegin ==
    /\ walk.pc = "idle"
    /\ \E client \in disk_color_list, grid \in domain,
          direction \in walk_directions :
        walk' = [pc |-> "loop", client |-> client,
                 opponent |-> disk_color_permutation(client),
                 grid |-> grid, direction |-> direction,
                 target_grid |-> grid, checked_grids |-> {grid},
                 in_between_opponents |-> {}, iterations |-> 0]
    /\ UNCHANGED <<width, height, state, neighbors, available_grids,
                   expected_captives, last, ncalls, pc, nturns, cursor_pos,
                   disk_color, status, agent_state, target_grid, thread_pc>>

\* an iteration that does not test whether the neighbour was met before
iteration_without_memory(w) ==
    LET next == [w EXCEPT !.iterations = @ + 1]
    IN  IF w.direction \notin DOMAIN neighbors[w.target_grid]
        THEN [next EXCEPT !.in_between_opponents = {}, !.pc = "returned"]
        ELSE LET neighbor == neighbors[w.target_grid][w.direction]
             IN  IF state[neighbor] = w.opponent
                 THEN [next EXCEPT
                          !.checked_grids = @ \cup {neighbor},
                          !.in_between_opponents = @ \cup {neighbor},
                          !.target_grid = neighbor]
                 ELSE IF state[neighbor] = w.client
                 THEN [next EXCEPT
                          !.checked_grids = @ \cup {neighbor},
                          !.pc = "returned"]
                 ELSE [next EXCEPT
                          !.checked_grids = @ \cup {neighbor},
                          !.in_between_opponents = {},
                          !.pc = "returned"]

\* the locals of calculate_captives after one iteration of its while loop;
\* `iterations` counts the iterations
iteration(w) ==
    LET next == [w EXCEPT !.iterations = @ + 1]
    IN  IF w.direction \notin DOMAIN neighbors[w.target_grid]
        THEN [next EXCEPT !.in_between_opponents = {}, !.pc = "returned"]
        ELSE LET neighbor == neighbors[w.target_grid][w.direction]
             IN  IF neighbor \in w.checked_grids
                 THEN [next EXCEPT
                          !.in_between_opponents = {},
                          !.pc = "returned"]
                 ELSE IF state[neighbor] = w.opponent
                 THEN [next EXCEPT
                          !.checked_grids = @ \cup {neighbor},
                          !.in_between_opponents = @ \cup {neighbor},
                          !.target_grid = neighbor]
                 ELSE IF state[neighbor] = w.client
                 THEN [next EXCEPT
                          !.checked_grids = @ \cup {neighbor},
                          !.pc = "returned"]
                 ELSE [next EXCEPT
                          !.checked_grids = @ \cup {neighbor},
                          !.in_between_opponents = {},
                          !.pc = "returned"]

\* one iteration of the while loop; the guard on the count keeps a loop
\* that would not end within the bounds of the model
CalculateCaptivesIterate ==
    /\ walk.pc = "loop"
    /\ walk.iterations <= domain_len
    /\ walk' = iteration(walk)
    /\ UNCHANGED <<width, height, state, neighbors, available_grids,
                   expected_captives, last, ncalls, pc, nturns, cursor_pos,
                   disk_color, status, agent_state, target_grid, thread_pc>>

NextWalk ==
    \/ AddNeighbor
    \/ CalculateCaptivesBegin
    \/ CalculateCaptivesIterate

SpecWalk == InitWalk /\ [][NextWalk]_vars

-----------------------------------------------------------------------------
(* Cursor *)

clamp(x, minimum, maximum) ==
    IF x > maximum
    THEN (IF minimum > maximum THEN minimum ELSE maximum)
    ELSE (IF minimum > x THEN minimum ELSE x)

\* a clamp whose upper bounds are the sizes of the board, not the last row
\* and the last column
clamp_to_the_size(pos) ==
    <<clamp(pos[1], 0, height + 0), clamp(pos[2], 0, width + 0)>>

\* Cursor.pos after clamp_itself_within_board (Board.origin is (0, 0))
clamp_itself_within_board(pos) ==
    <<clamp(pos[1], 0, height + 0 - 1), clamp(pos[2], 0, width + 0 - 1)>>

\* the compass of Cursor.move
compass(direction) ==
    CASE direction = "n" -> <<-1, 0>>
      [] direction = "s" -> <<1, 0>>
      [] direction = "e" -> <<0, 1>>
      [] direction = "w" -> <<0, -1>>

\* Cursor.pos after Cursor.move(direction)
move(pos, direction) ==
    LET delta == compass(direction)
    IN  clamp_itself_within_board(<<pos[1] + delta[1], pos[2] + delta[2]>>)

\* the keys of func_dict that move the cursor
move_keys == {"w", "a", "s", "d"}

key_direction(entry) ==
    CASE entry = "w" -> "n"
      [] entry = "a" -> "w"
      [] entry = "s" -> "s"
      [] entry = "d" -> "e"

\* what the player types at the prompt: quit, a key of func_dict, or
\* anything else
entries == {"x", "w", "a", "s", "d", "z", "n", "other"}

-----------------------------------------------------------------------------
(* The game loops of tests/ctrls_cui_ab.py (two players sharing the cursor)*)
(* and tests/ctrls_cui_ac.py (a player against the agent Kijitora).  Both  *)
(* start alike: Board(width, height), linking(), the choice of the         *)
(* player's colour, Cursor(board, colour), setup().                        *)

InitGame(sizes) ==
    /\ \E size \in sizes : width = size[1] /\ height = size[2]
    /\ state = [g \in domain |-> "none"]
    /\ neighbors = no_neighbors
    /\ available_grids = {}
    /\ expected_captives = {}
    /\ last = NoCall
    /\ ncalls = 0
    /\ pc = "start"
    /\ nturns = 0
    /\ cursor_pos = <<0, 0>>
    /\ disk_color = "dark"
    /\ status = "unbound"
    /\ agent_state = "free"
    /\ target_grid = NoGrid
    /\ thread_pc = "idle"
    /\ walk = NoWalk

\* the board sizes the player may type, within the bounds
small_sizes == (1 .. MaxWidth) \X (1 .. MaxHeight)

\* main() up to the main loop
BeginGame ==
    /\ pc = "start"
    /\ neighbors' = linking(neighbors)
    /\ disk_color' \in disk_color_list
    /\ cursor_pos' = clamp_itself_within_board(<<0, 0>>)
    /\ state' = setup(state)
    /\ last' = Call("setup", 0, 0, "none", "none", 0)
    /\ pc' = "turn"
    /\ UNCHANGED <<width, height, available_grids, expected_captives, ncalls,
                   nturns, status, agent_state, target_grid, thread_pc, walk>>

\* the top of the main loop: board.suggest_available_grids(cursor.disk_color)
BeginTurn ==
    /\ pc = "turn"
    /\ nturns < MaxTurns
    /\ LET r == suggest_available_grids(state, available_grids, disk_color)
       IN  /\ state' = r.state
           /\ available_grids' = r.available_grids
           /\ last' = Call("suggest_available_grids", 0, 0, disk_color,
                           "none", r.number)
    /\ nturns' = nturns + 1
    /\ pc' = "preview"
    /\ UNCHANGED <<width, height, neighbors, expected_captives, ncalls,
                   cursor_pos, disk_color, status, agent_state, target_grid,
                   thread_pc, walk>>

\* the top of the inner loop:
\* board.suggest_expected_captives(*cursor_pos, cursor.disk_color)
Preview ==
    /\ pc = "preview"
    /\ expected_captives' =
           suggest_expected_captives(state, expected_captives, cursor_pos[1],
                                     cursor_pos[2], disk_color)
    /\ last' = Call("suggest_expected_captives", cursor_pos[1],
                    cursor_pos[2], disk_color, "none", 0)
    /\ pc' = "input"
    /\ UNCHANGED <<width, height, state, neighbors, available_grids, ncalls,
                   nturns, cursor_pos, disk_color, status, agent_state,
                   target_grid, thread_pc, walk>>

\* entry == "x"
Quit ==
    /\ pc = "input"
    /\ pc' = "quit"
    /\ UNCHANGED <<width, height, state, neighbors, available_grids,
                   expected_captives, last, ncalls, nturns, cursor_pos,
                   disk_color, status, agent_state, target_grid, thread_pc,
                   walk>>

\* Cursor.place_a_disk and what main() does with its status; next_pc is
\* where main() goes after a successful placement and next_color the colour
\* the cursor holds then
PlaceADisk(next_pc, next_color) ==
    /\ pc = "input"
    /\ LET r == flip_outflanked_disks(state, available_grids,
                                      expected_captives, cursor_pos[1],
                                      cursor_pos[2], disk_color)
       IN  /\ state' = r.state
           /\ available_grids' = r.available_grids
           /\ expected_captives' = r.expected_captives
           /\ last' = Call("flip_outflanked_disks", cursor_pos[1],
                           cursor_pos[2], disk_color, r.status, 0)
           /\ status' = r.status
           /\ IF r.status = status_s
              THEN pc' = next_pc /\ disk_color' = next_color
              ELSE pc' = "preview" /\ disk_color' = disk_color
    /\ UNCHANGED <<width, height, neighbors, ncalls, nturns, cursor_pos,
                   agent_state, target_grid, thread_pc, walk>>

\* ctrls_cui_ab: the keys w, a, s, d (cursor.move returns None) and n
\* (reverse returns None)
AB_Key ==
    /\ pc = "input"
    /\ \E entry \in move_keys \cup {"n"} :
        cursor_pos' = IF entry \in move_keys
                      THEN move(cursor_pos, key_direction(entry))
                      ELSE cursor_pos
    /\ status' = "None"
    /\ pc' = "preview"
    /\ UNCHANGED <<width, height, state, neighbors, available_grids,
                   expected_captives, last, ncalls, nturns, disk_color,
                   agent_state, target_grid, thread_pc, walk>>

\* ctrls_cui_ab: the key z; after a success the cursor takes the other
\* colour and the loop begins the next turn
AB_Place == PlaceADisk("turn", disk_color_permutation(disk_color))

\* ctrls_cui_ab: an entry that is no key of func_dict raises KeyError, which
\* is passed over, and status keeps the value of the iteration before
AB_OtherEntry ==
    /\ pc = "input"
    /\ IF status = "unbound"
       THEN pc' = "crashed" /\ disk_color' = disk_color     \* NameError
       ELSE IF status = status_s
       THEN pc' = "turn" /\ disk_color' = disk_color_permutation(disk_color)
       ELSE pc' = "preview" /\ disk_color' = disk_color
    /\ UNCHANGED <<width, height, state, neighbors, available_grids,
                   expected_captives, last, ncalls, nturns, cursor_pos,
                   status, agent_state, target_grid, thread_pc, walk>>

\* the sizes of the boards of ctrls_cui_ab: the small ones, the 4 x 4 board
\* and the default 8 x 8 board
sizes_ab == small_sizes \cup {<<4, 4>>, <<DefaultSize, DefaultSize>>}

InitAB == InitGame(sizes_ab)

NextAB ==
    \/ BeginGame
    \/ BeginTurn
    \/ Preview
    \/ Quit
    \/ AB_Key
    \/ AB_Place
    \/ AB_OtherEntry

SpecAB == InitAB /\ [][NextAB]_vars

-----------------------------------------------------------------------------
(* tests/ctrls_cui_ac.py: the cursor keeps the player's colour and the     *)
(* agent Kijitora plays the other one, deciding in a thread of its own     *)

\* agent.disk_color: opponents_disk of main()
agent_disk_color == disk_color_permutation(disk_color)

\* a place_a_disk that does not look at the state of the agent
place_a_disk_while_busy(st, ag, ec, busy_or_free, target) ==
    IF target = NoGrid
    THEN [state |-> st, available_grids |-> ag, expected_captives |-> ec,
          status |-> status_f2]
    ELSE flip_outflanked_disks(st, ag, ec, target[1], target[2],
                               agent_disk_color)

\* BaseAgent.place_a_disk
place_a_disk(st, ag, ec, busy_or_free, target) ==
    IF busy_or_free = "busy"
    THEN [state |-> st, available_grids |-> ag, expected_captives |-> ec,
          status |-> status_f1]
    ELSE IF target = NoGrid
    THEN [state |-> st, available_grids |-> ag, expected_captives |-> ec,
          status |-> status_f2]
    ELSE flip_outflanked_disks(st, ag, ec, target[1], target[2],
                               agent_disk_color)

\* the keys w, a, s, d, n and any entry that is no key: status = None
AC_Key ==
    /\ pc = "input"
    /\ \E entry \in move_keys \cup {"n", "other"} :
        cursor_pos' = IF entry \in move_keys
                      THEN move(cursor_pos, key_direction(entry))
                      ELSE cursor_pos
    /\ status' = "None"
    /\ pc' = "preview"
    /\ UNCHANGED <<width, height, state, neighbors, available_grids,
                   expected_captives, last, ncalls, nturns, disk_color,
                   agent_state, target_grid, thread_pc, walk>>

\* the key z; after a success the opponent's turn begins
AC_Place == PlaceADisk("opponent", disk_color)

\* board.suggest_available_grids(agent.disk_color), then the thread of
\* agent.start is started
OpponentTurn ==
    /\ pc = "opponent"
    /\ LET r == suggest_available_grids(state, available_grids,
                                        agent_disk_color)
       IN  /\ state' = r.state
           /\ available_grids' = r.available_grids
           /\ last' = Call("suggest_available_grids", 0, 0,
                           agent_disk_color, "none", r.number)
    /\ thread_pc' = "start"
    /\ pc' = "waiting"
    /\ UNCHANGED <<width, height, neighbors, expected_captives, ncalls,
                   nturns, cursor_pos, disk_color, status, agent_state,
                   target_grid, walk>>

\* BaseAgent.start: self.state = "busy"
AgentStart ==
    /\ thread_pc = "start"
    /\ agent_state' = "busy"
    /\ thread_pc' = "considering"
    /\ UNCHANGED <<width, height, state, neighbors, available_grids,
                   expected_captives, last, ncalls, pc, nturns, cursor_pos,
                   disk_color, status, target_grid, walk>>

\* BaseAgent.start: self.target_grid = self.consider_next_move(), which is
\* Kijitora.consider_next_move: None, or a random available grid
AgentConsider ==
    /\ thread_pc = "considering"
    /\ IF available_grids = {}
       THEN target_grid' = NoGrid
       ELSE target_grid' \in available_grids
    /\ thread_pc' = "finishing"
    /\ UNCHANGED <<width, height, state, neighbors, available_grids,
                   expected_captives, last, ncalls, pc, nturns, cursor_pos,
                   disk_color, status, agent_state, walk>>

\* BaseAgent.start: self.state = "free", and the thread ends
AgentFinish ==
    /\ thread_pc = "finishing"
    /\ agent_state' = "free"
    /\ thread_pc' = "dead"
    /\ UNCHANGED <<width, height, state, neighbors, available_grids,
                   expected_captives, last, ncalls, pc, nturns, cursor_pos,
                   disk_color, status, target_grid, walk>>

\* a polling loop that ends on delta_time > 2.0 alone, whether the thread
\* is alive or not
WaitForTheClock ==
    /\ pc = "waiting"
    /\ pc' = "agent_place"
    /\ UNCHANGED <<width, height, state, neighbors, available_grids,
                   expected_captives, last, ncalls, nturns, cursor_pos,
                   disk_color, status, agent_state, target_grid, thread_pc,
                   walk>>

\* the polling loop of main() ends once thread.is_alive() is false
WaitForThread ==
    /\ pc = "waiting"
    /\ thread_pc = "dead"
    /\ pc' = "agent_place"
    /\ UNCHANGED <<width, height, state, neighbors, available_grids,
                   expected_captives, last, ncalls, nturns, cursor_pos,
                   disk_color, status, agent_state, target_grid, thread_pc,
                   walk>>

\* status = agent.place_a_disk()
AgentPlaceADisk ==
    /\ pc = "agent_place"
    /\ LET r == place_a_disk(state, available_grids, expected_captives,
                             agent_state, target_grid)
       IN  /\ state' = r.state
           /\ available_grids' = r.available_grids
           /\ expected_captives' = r.expected_captives
           /\ status' = r.status
           /\ last' = IF r.status \in {status_f1, status_f2}
                      THEN last
                      ELSE Call("flip_outflanked_disks", target_grid[1],
                                target_grid[2], agent_disk_color, r.status,
                                0)
    /\ pc' = "after_place"
    /\ UNCHANGED <<width, height, neighbors, ncalls, nturns, cursor_pos,
                   disk_color, agent_state, target_grid, thread_pc, walk>>

\* match status: every case but a success calls
\* board.clear_available_grids()
AfterPlace ==
    /\ pc = "after_place"
    /\ IF status = status_s
       THEN UNCHANGED <<state, available_grids, last>>
       ELSE /\ state' = clear_available_grids(state)
            /\ available_grids' = {}
            /\ last' = Call("clear_available_grids", 0, 0, "none", "none", 0)
    /\ pc' = "turn"
    /\ UNCHANGED <<width, height, neighbors, expected_captives, ncalls,
                   nturns, cursor_pos, disk_color, status, agent_state,
                   target_grid, thread_pc, walk>>

InitAC == InitGame(small_sizes)

NextAC ==
    \/ BeginGame
    \/ BeginTurn
    \/ Preview
    \/ Quit
    \/ AC_Key
    \/ AC_Place
    \/ OpponentTurn
    \/ AgentStart
    \/ AgentConsider
    \/ AgentFinish
    \/ WaitForThread
    \/ AgentPlaceADisk
    \/ AfterPlace

SpecAC == InitAC /\ [][NextAC]_vars

\* the steps main() and the thread of the agent take by themselves
ProgramStepAC ==
    \/ BeginGame
    \/ BeginTurn
    \/ Preview
    \/ OpponentTurn
    \/ AgentStart
    \/ AgentConsider
    \/ AgentFinish
    \/ WaitForThread
    \/ AgentPlaceADisk
    \/ AfterPlace

\* the entries of the player at the prompt of input()
PlayerEntryAC ==
    \/ Quit
    \/ AC_Key
    \/ AC_Place

\* the program goes on while it can, and the player keeps answering the
\* prompt, with whatever entry
FairSpecAC ==
    /\ InitAC
    /\ [][NextAC]_vars
    /\ WF_vars(ProgramStepAC)
    /\ WF_vars(PlayerEntryAC)

-----------------------------------------------------------------------------
(* An agent on a board, driven by a caller that is free to call            *)
(* board.suggest_available_grids(agent.disk_color), to start a thread on   *)
(* agent.start and to call agent.place_a_disk() at any time, also while    *)
(* the thread runs.  place_a_disk reads agent.state and agent.target_grid  *)
(* one after the other, and the thread may run between the two reads.      *)

\* board.suggest_available_grids(agent.disk_color)
SuggestForAgent ==
    /\ pc = "turn"
    /\ ncalls < MaxCalls
    /\ LET r == suggest_available_grids(state, available_grids,
                                        agent_disk_color)
       IN  /\ state' = r.state
           /\ available_grids' = r.available_grids
           /\ last' = Call("suggest_available_grids", 0, 0,
                           agent_disk_color, "none", r.number)
    /\ ncalls' = ncalls + 1
    /\ UNCHANGED <<width, height, neighbors, expected_captives, pc, nturns,
                   cursor_pos, disk_color, status, agent_state, target_grid,
                   thread_pc, walk>>

\* threading.Thread(target=agent.start).start()
StartThread ==
    /\ pc = "turn"
    /\ ncalls < MaxCalls
    /\ thread_pc \in {"idle", "dead"}
    /\ thread_pc' = "start"
    /\ ncalls' = ncalls + 1
    /\ UNCHANGED <<width, height, state, neighbors, available_grids,
                   expected_captives, last, pc, nturns, cursor_pos,
                   disk_color, status, agent_state, target_grid, walk>>

\* agent.place_a_disk() up to its first test, of agent.state: a busy agent
\* returns 'still busy' at once
PlaceADiskEnter ==
    /\ pc = "turn"
    /\ ncalls < MaxCalls
    /\ LET r == place_a_disk(state, available_grids, expected_captives,
                             agent_state, target_grid)
       IN  IF r.status = status_f1
           THEN /\ status' = status_f1
                /\ last' = Call("place_a_disk", target_grid[1],
                                target_grid[2], agent_disk_color, status_f1,
                                0)
                /\ pc' = "turn"
           ELSE /\ pc' = "placing"
                /\ UNCHANGED <<status, last>>
    /\ ncalls' = ncalls + 1
    /\ UNCHANGED <<width, height, state, neighbors, available_grids,
                   expected_captives, nturns, cursor_pos, disk_color,
                   agent_state, target_grid, thread_pc, walk>>

\* the rest of agent.place_a_disk(), which found the agent free: the test
\* of target_grid and the call of board.flip_outflanked_disks
PlaceADiskAct ==
    /\ pc = "placing"
    /\ LET r == place_a_disk(state, available_grids, expected_captives,
                             "free", target_grid)
       IN  /\ state' = r.state
           /\ available_grids' = r.available_grids
           /\ expected_captives' = r.expected_captives
           /\ status' = r.status
           /\ last' = Call("place_a_disk", target_grid[1], target_grid[2],
                           agent_disk_color, r.status, 0)
    /\ pc' = "turn"
    /\ UNCHANGED <<width, height, neighbors, ncalls, nturns, cursor_pos,
                   disk_color, agent_state, target_grid, thread_pc, walk>>

InitAgent == InitGame(small_sizes)

NextAgent ==
    \/ BeginGame
    \/ SuggestForAgent
    \/ StartThread
    \/ AgentStart
    \/ AgentConsider
    \/ AgentFinish
    \/ PlaceADiskEnter
    \/ PlaceADiskAct

SpecAgent == InitAgent /\ [][NextAgent]_vars

-----------------------------------------------------------------------------
(* A Cursor on a board, moved by any sequence of Cursor.move calls.        *)
(* InitCursor is the state after Board(width, height) and                  *)
(* Cursor(board, disk_color, row_number, column_number), whose __init__    *)
(* clamps the position it is given.                                        *)

InitCursor ==
    /\ \E size \in sizes_ab : width = size[1] /\ height = size[2]
    /\ state = [g \in domain |-> "none"]
    /\ neighbors = no_neighbors
    /\ available_grids = {}
    /\ expected_captives = {}
    /\ last = NoCall
    /\ ncalls = 0
    /\ pc = "start"
    /\ nturns = 0
    /\ \E given \in Coordinates : cursor_pos = clamp_itself_within_board(given)
    /\ disk_color \in disk_color_list
    /\ status = "unbound"
    /\ agent_state = "free"
    /\ target_grid = NoGrid
    /\ thread_pc = "idle"
    /\ walk = NoWalk

\* Cursor.move(direction); last records the position before the call and
\* the delta of the direction
CursorMove ==
    /\ \E direction \in {"n", "s", "e", "w"} :
        /\ cursor_pos' = move(cursor_pos, direction)
        /\ last' = [Call("move", cursor_pos[1], cursor_pos[2], "none", "none",
                         0) EXCEPT !.direction = compass(direction)]
    /\ UNCHANGED <<width, height, state, neighbors, available_grids,
                   expected_captives, ncalls, pc, nturns, disk_color, status,
                   agent_state, target_grid, thread_pc, walk>>

NextCursor == CursorMove

SpecCursor == InitCursor /\ [][NextCursor]_vars

-----------------------------------------------------------------------------
(* What the rules of the game say, stated on positions without the         *)
(* neighbour maps: the grids a disk of `client` put on `grid` outflanks    *)

\* the position i steps from grid in a direction
Step(grid, direction, i) ==
    <<grid[1] + i * direction[1], grid[2] + i * direction[2]>>

\* no run on the board is longer than this
MaxRun == width + height

\* the k grids after `grid` in `direction` hold the opponent and the next
\* one holds `client`
Outflanks(st, client, grid, direction, k) ==
    /\ Step(grid, direction, k + 1) \in domain
    /\ st[Step(grid, direction, k + 1)] = client
    /\ \A i \in 1 .. k :
          st[Step(grid, direction, i)] = disk_color_permutation(client)

Outflanked(st, client, grid, direction) ==
    UNION {{Step(grid, direction, i) : i \in 1 .. k} :
              k \in {n \in 1 .. MaxRun :
                        Outflanks(st, client, grid, direction, n)}}

OutflankedAround(st, client, grid) ==
    UNION {Outflanked(st, client, grid, d) : d \in neighborhood}

\* `grid` is a disk-free grid of the board where `client` outflanks something
IsLegalDestination(st, client, grid) ==
    /\ grid \in domain
    /\ st[grid] \in {"none", "available"}
    /\ \E d \in neighborhood, k \in 1 .. MaxRun :
          Outflanks(st, client, grid, d, k)

LegalDestinations(st, client) ==
    {g \in domain : IsLegalDestination(st, client, g)}

\* the grids in a state
GridsIn(st, s) == {g \in domain : st[g] = s}

-----------------------------------------------------------------------------
(* Claims *)

\* linking() has run
Linked == neighbors = linking(no_neighbors)

\* the grid a call was given
Target(call) == <<call.row, call.col>>

\* the grids that hold a disk of one colour before a step and a disk of the
\* other colour after it
Flipped ==
    {p \in domain :
        /\ state[p] \in disk_color_list
        /\ state'[p] \in disk_color_list
        /\ state'[p] # state[p]}

\* the union of the 8 directional capture sets of calculate_captives
CaptureSets(st, client, grid) ==
    UNION {calculate_captives(st, client, disk_color_permutation(client),
                              grid, d) : d \in neighborhood}

\* this step is a call of flip_outflanked_disks that succeeded (a success
\* always changes the state of the target)
FlipSucceeds ==
    /\ last'.op = "flip_outflanked_disks"
    /\ last'.status = status_s
    /\ state' # state

\* C1: a successful flip_outflanked_disks(row, col, client) sets the target
\* to client and flips exactly the union of the 8 directional capture sets
\* computed from the target at the moment of the call, whatever
\* expected_captives held beforehand.
C1_FlipFlipsTheCaptureSets ==
    [][FlipSucceeds =>
          /\ state'[Target(last')] = last'.client
          /\ Flipped = CaptureSets(state, last'.client, Target(last'))]_vars

\* C2: flip_outflanked_disks(row, col, client) returns the failure status
\* whenever the target is not a legal destination for client by the capture
\* scan, also when it carries an 'available' mark left for the other colour.
C2_IllegalTargetFails ==
    [][(/\ last'.op = "flip_outflanked_disks"
        /\ ncalls' = ncalls + 1
        /\ ~IsLegalDestination(state, last'.client, Target(last')))
          => last'.status = status_f]_vars

\* C3: whenever flip_outflanked_disks returns the failure status, the state
\* of every grid, available_grids and expected_captives are the same before
\* and after the call.
C3_FailedFlipChangesNothing ==
    [][(/\ last'.op = "flip_outflanked_disks"
        /\ ncalls' = ncalls + 1
        /\ last'.status = status_f)
          => /\ state' = state
             /\ available_grids' = available_grids
             /\ expected_captives' = expected_captives]_vars

\* C3 witness: a flip on a grid of the board failed while both transient
\* sets held something
C3_Witness ==
    /\ last.op = "flip_outflanked_disks"
    /\ last.status = status_f
    /\ Target(last) \in domain
    /\ available_grids # {}
    /\ expected_captives # {}

\* C4: after suggest_available_grids(client) returns on a linked board,
\* whatever was called before, the grids in state 'available' and
\* available_grids both are exactly the disk-free grids from which client
\* captures in some direction.
C4_AvailableAreTheLegalDestinations ==
    (last.op = "suggest_available_grids" /\ Linked) =>
        /\ GridsIn(state, "available") = LegalDestinations(state, last.client)
        /\ available_grids = LegalDestinations(state, last.client)

\* the number of disks of a colour
Count(st, color) == Cardinality(GridsIn(st, color))

\* C5: in the game loops every successful placement, by the cursor or by the
\* agent, flips at least one opposing disk: the placing colour gains at
\* least 2 disks and the other colour loses at least 1.
C5_PlacementFlipsADisk ==
    [][FlipSucceeds =>
          /\ Count(state', last'.client) >= Count(state, last'.client) + 2
          /\ Count(state', disk_color_permutation(last'.client))
                 <= Count(state, disk_color_permutation(last'.client)) - 1]_vars

\* C6: on a linked board calculate_captives(client, opponent, grid,
\* direction) returns the k >= 1 grids grid+1*direction .. grid+k*direction
\* exactly when all of them hold opponent and the grid at
\* grid+(k+1)*direction holds client; in every other case (board edge, a
\* 'none' or 'available' grid, first neighbour already client) it returns
\* the empty set.
C6_CaptivesAreTheOutflankedRun ==
    last.op = "calculate_captives" =>
        LET grid == <<last.row, last.col>>
        IN  /\ \A k \in 1 .. MaxRun :
                  Outflanks(state, last.client, grid, last.direction, k) =>
                      last.captives =
                          {Step(grid, last.direction, i) : i \in 1 .. k}
            /\ (~\E k \in 1 .. MaxRun :
                    Outflanks(state, last.client, grid, last.direction, k))
                  => last.captives = {}

\* C6 witness: a call returned a run of two or more opponent disks
C6_Witness ==
    /\ last.op = "calculate_captives"
    /\ Cardinality(last.captives) >= 2

\* the board holds the opening position of setup(), 'available' marks aside
Fresh(st) == clear_available_grids(st) = setup(st)

\* C7: when suggest_available_grids(client), suggest_expected_captives(row,
\* col, client) and flip_outflanked_disks(row, col, client) are called in
\* that order on a legal grid (as the loop of ctrls_cui_ab does), the target
\* becomes client, exactly the outflanked opponent disks flip to client and
\* every other disk keeps its colour; on a fresh 8 x 8 board exactly one
\* LIGHT disk flips for DARK, and on a fresh 4 x 4 board a DARK move ends
\* with 4 DARK, 1 LIGHT and 11 empty grids.
C7_PreviewedMoveFlipsTheOutflanked ==
    [][(/\ FlipSucceeds
        /\ IsLegalDestination(state, last'.client, Target(last')))
          => /\ state'[Target(last')] = last'.client
             /\ Flipped = OutflankedAround(state, last'.client, Target(last'))
             /\ \A p \in Flipped : state'[p] = last'.client
             /\ \A p \in domain \ (Flipped \cup {Target(last')}) :
                    state[p] \in disk_color_list => state'[p] = state[p]
             /\ (/\ width = DefaultSize
                 /\ height = DefaultSize
                 /\ Fresh(state)
                 /\ last'.client = "dark")
                   => /\ Cardinality(Flipped) = 1
                      /\ \A p \in Flipped : state[p] = "light"
             /\ (/\ width = 4
                 /\ height = 4
                 /\ Fresh(state)
                 /\ last'.client = "dark")
                   => /\ Count(state', "dark") = 4
                      /\ Count(state', "light") = 1
                      /\ Count(state', "none") = 11]_vars

\* C7 witness: DARK has made the first move on the 8 x 8 board and one
\* LIGHT disk is left of the two
C7_Witness ==
    /\ last.op = "flip_outflanked_disks"
    /\ last.status = status_s
    /\ last.client = "dark"
    /\ width = DefaultSize
    /\ height = DefaultSize
    /\ Count(state, "dark") = 4
    /\ Count(state, "light") = 1

\* C8: after every successful flip_outflanked_disks no grid is in state
\* 'available', available_grids is empty and expected_captives is empty.
C8_SuccessClearsTheTransientSets ==
    (last.op = "flip_outflanked_disks" /\ last.status = status_s) =>
        /\ GridsIn(state, "available") = {}
        /\ available_grids = {}
        /\ expected_captives = {}

\* C8 witness: a flip succeeded and turned a disk over, so that a preview
\* and the marks of a suggestion were there to clear
C8_Witness ==
    /\ last.op = "flip_outflanked_disks"
    /\ last.status = status_s
    /\ Count(state, last.client) >= 4

\* C9: after suggest_expected_captives(row, col, client) on a grid marked
\* 'available', expected_captives is the union over the 8 directions of the
\* captives from that grid for client, with nothing left of an earlier
\* preview.
C9_PreviewIsTheUnionOfTheCaptives ==
    (/\ last.op = "suggest_expected_captives"
     /\ Target(last) \in domain
     /\ state[Target(last)] = "available")
        => /\ expected_captives = CaptureSets(state, last.client, Target(last))
           /\ expected_captives =
                  OutflankedAround(state, last.client, Target(last))

\* C9 witness: a preview on an 'available' grid found captives
C9_Witness ==
    /\ last.op = "suggest_expected_captives"
    /\ Target(last) \in domain
    /\ state[Target(last)] = "available"
    /\ expected_captives # {}

\* C10: after suggest_expected_captives(row, col, client) with any (row, col)
\* that is not a legal destination for client (a disk, an unmarked empty
\* grid, a grid legal only for the other colour, or a coordinate outside the
\* board), expected_captives is empty.
C10_NoPreviewOffLegalDestinations ==
    (/\ last.op = "suggest_expected_captives"
     /\ ~IsLegalDestination(state, last.client, Target(last)))
        => expected_captives = {}

\* C10 amended: with (row, col) on the board and not a legal destination
\* for client, expected_captives is empty after the call; with (row, col)
\* outside the board the call leaves expected_captives as it was.
C10_NoPreviewOffLegalDestinationsOnBoard ==
    [][(/\ last'.op = "suggest_expected_captives"
        /\ ncalls' = ncalls + 1)
          => /\ (/\ Target(last') \in domain
                 /\ ~IsLegalDestination(state, last'.client,
                                        Target(last')))
                   => expected_captives' = {}
             /\ Target(last') \notin domain
                   => expected_captives' = expected_captives]_vars

\* C10 witness: a preview outside the board left an earlier preview standing
C10_Witness ==
    /\ last.op = "suggest_expected_captives"
    /\ Target(last) \notin domain
    /\ expected_captives # {}

-----------------------------------------------------------------------------
(* Claims C11 .. C20 *)

\* the three methods of Board that take a client
client_methods ==
    {"suggest_available_grids", "suggest_expected_captives",
     "flip_outflanked_disks"}

\* C11: suggest_available_grids, suggest_expected_captives and
\* flip_outflanked_disks, given a client outside {dark, light} ('none' and
\* 'available' included), do not report a success and leave every grid's
\* state, available_grids and expected_captives unchanged.
C11_InvalidClientIsRejected ==
    [][(/\ ncalls' = ncalls + 1
        /\ last'.op \in client_methods
        /\ last'.client \notin disk_color_list)
          => /\ last'.status # status_s
             /\ UNCHANGED <<state, available_grids, expected_captives>>]_vars

\* the outcomes that tell a caller that the call failed: the failure status
\* of flip_outflanked_disks, or an exception
failure_outcomes == {status_f, "ValueError"}

\* this step is a call of op with a coordinate outside the board
CallOutsideBoard(op) ==
    /\ ncalls' = ncalls + 1
    /\ last'.op = op
    /\ Target(last') \notin domain

\* C12: suggest_expected_captives and flip_outflanked_disks, given a
\* (row, col) outside the board (negative values included), report an
\* explicit failure outcome to the caller and leave the board unchanged
\* (no wrapped or clamped grid is acted on).
C12_OutsideBoardFailsExplicitly ==
    [][(CallOutsideBoard("suggest_expected_captives")
        \/ CallOutsideBoard("flip_outflanked_disks"))
          => /\ last'.status \in failure_outcomes
             /\ UNCHANGED <<state, available_grids, expected_captives>>]_vars

\* C12 amended: with (row, col) outside the board, flip_outflanked_disks
\* returns the failure status and suggest_expected_captives returns nothing,
\* as it does on success; both leave every grid's state, available_grids
\* and expected_captives unchanged.
C12_OutsideBoardChangesNothing ==
    [][/\ CallOutsideBoard("flip_outflanked_disks")
          => /\ last'.status = status_f
             /\ UNCHANGED <<state, available_grids, expected_captives>>
       /\ CallOutsideBoard("suggest_expected_captives")
          => /\ last'.status = "none"
             /\ UNCHANGED <<state, available_grids, expected_captives>>]_vars

\* C12 witness: a flip outside the board failed while the grid nearest to
\* the coordinate was marked available
C12_Witness ==
    /\ last.op = "flip_outflanked_disks"
    /\ Target(last) \notin domain
    /\ last.status = status_f
    /\ \E g \in available_grids :
          \/ g[1] = 0 /\ last.row = -1 /\ last.col = g[2]
          \/ g[2] = 0 /\ last.col = -1 /\ last.row = g[1]

\* this step is a call of a method of Board other than setup and other than
\* a flip_outflanked_disks that succeeded
CallThatPlacesNoDisk ==
    /\ ncalls' = ncalls + 1
    /\ last'.op # "setup"
    /\ ~(last'.op = "flip_outflanked_disks" /\ last'.status = status_s)

\* C13: no operation other than setup() and a successful
\* flip_outflanked_disks changes which grids hold a dark or a light disk:
\* suggest_available_grids, clear_available_grids, suggest_expected_captives
\* and clear_expected_captives (and linking, and a failed flip) leave every
\* dark and every light grid as it is and only move grids between 'none'
\* and 'available'.
C13_OnlySetupAndFlipPlaceDisks ==
    [][CallThatPlacesNoDisk
          => \A g \in domain :
                IF state[g] \in disk_color_list
                THEN state'[g] = state[g]
                ELSE state'[g] \in {"none", "available"}]_vars

\* C13 witness: suggest_available_grids marked a grid on a board that
\* holds disks of both colours
C13_Witness ==
    /\ last.op = "suggest_available_grids"
    /\ last.number > 0
    /\ GridsIn(state, "available") # {}
    /\ GridsIn(state, "dark") # {}
    /\ GridsIn(state, "light") # {}

\* the offset -d
Opposite(d) == <<0 - d[1], 0 - d[2]>>

\* in the links nbrs, B is the neighbour of A at offset d
IsNeighborAt(nbrs, A, d, B) == d \in DOMAIN nbrs[A] /\ nbrs[A][d] = B

\* this step is a call of linking() on a board that was not linked (the only
\* step that changes any Grid.neighbors)
LinkingStep == neighbors' # neighbors

\* C14: after linking(), for all grids A and B and every offset d, B is the
\* neighbour of A at offset d if and only if A is the neighbour of B at
\* offset -d.  (Stated for every neighbour B that any grid A holds at any
\* offset d; taken over all A this is the equivalence.)
C14_AdjacencyIsSymmetric ==
    [][LinkingStep
          => \A A \in domain : \A d \in DOMAIN neighbors'[A] :
                LET B == neighbors'[A][d]
                IN  /\ B \in domain
                    /\ IsNeighborAt(neighbors', B, Opposite(d), A)]_vars

\* C14 witness: a linked board of 8 x 8 whose grid (3, 3) holds (2, 2) at
\* offset (-1, -1)
C14_Witness ==
    /\ pc # "start"
    /\ width = DefaultSize
    /\ height = DefaultSize
    /\ IsNeighborAt(neighbors, <<3, 3>>, <<-1, -1>>, <<2, 2>>)

\* the number of neighbours of a grid by its place on a board of at least
\* 3 x 3: 3 in a corner, 5 on an edge, 8 inside
NeighborCount(g) ==
    LET on_row_edge == g[1] \in {0, height - 1}
        on_col_edge == g[2] \in {0, width - 1}
    IN  IF on_row_edge /\ on_col_edge THEN 3
        ELSE IF on_row_edge \/ on_col_edge THEN 5
        ELSE 8

\* C15: after linking() on a board with width >= 3 and height >= 3, every
\* corner grid has exactly 3 neighbours, every other edge grid exactly 5 and
\* every inner grid exactly 8, each stored under the offset that is its
\* position minus the grid's position.
C15_NeighborCounts ==
    [][(LinkingStep /\ width >= 3 /\ height >= 3)
          => \A g \in domain :
                /\ Cardinality(DOMAIN neighbors'[g]) = NeighborCount(g)
                /\ \A d \in DOMAIN neighbors'[g] :
                      /\ neighbors'[g][d] \in domain
                      /\ neighbors'[g][d] = <<g[1] + d[1], g[2] + d[2]>>]_vars

\* C15 witness: a linked board of 4 x 3 (corners, both kinds of edge and
\* inner grids)
C15_Witness ==
    /\ pc # "start"
    /\ width = 4
    /\ height = 3
    /\ Cardinality(DOMAIN neighbors[<<1, 1>>]) = 8
    /\ Cardinality(DOMAIN neighbors[<<0, 1>>]) = 5
    /\ Cardinality(DOMAIN neighbors[<<2, 3>>]) = 3

\* the centre of the board as the claims state it
CenterRow == ((height + 1) \div 2) - 1

CenterCol == ((width + 1) \div 2) - 1

\* this step is a call of setup()
SetupStep == ncalls' = ncalls + 1 /\ last'.op = "setup"

\* C16: setup() on a board with width >= 2 and height >= 2, from any prior
\* contents, leaves exactly 2 dark and 2 light disks and every other grid
\* empty, with light at (c_row, c_col) and (c_row+1, c_col+1) and dark at
\* (c_row, c_col+1) and (c_row+1, c_col).
C16_SetupPlacesTheStartingBlock ==
    [][(SetupStep /\ width >= 2 /\ height >= 2)
          => /\ GridsIn(state', "light") =
                    {<<CenterRow, CenterCol>>, <<CenterRow + 1, CenterCol + 1>>}
             /\ GridsIn(state', "dark") =
                    {<<CenterRow, CenterCol + 1>>, <<CenterRow + 1, CenterCol>>}
             /\ Cardinality(GridsIn(state', "light")) = 2
             /\ Cardinality(GridsIn(state', "dark")) = 2
             /\ \A g \in domain :
                    state'[g] \notin disk_color_list => state'[g] = "none"]_vars

\* C16 witness: setup() has run on a board of at least 2 x 2 whose grids
\* suggest_available_grids had marked before (available_grids still names
\* them)
C16_Witness ==
    /\ last.op = "setup"
    /\ width >= 2
    /\ height >= 2
    /\ available_grids # {}
    /\ GridsIn(state, "available") = {}

\* the 2 x 2 starting block of the 8 x 8 board
StartingBlock == {<<3, 3>>, <<3, 4>>, <<4, 3>>, <<4, 4>>}

\* g and b share an edge
OrthogonallyAdjacent(g, b) ==
    \/ g[1] = b[1] /\ (g[2] = b[2] + 1 \/ g[2] = b[2] - 1)
    \/ g[2] = b[2] /\ (g[1] = b[1] + 1 \/ g[1] = b[1] - 1)

\* this step is the first suggest_available_grids('dark') on a linked 8 x 8
\* board right after setup()
OpeningSuggestion ==
    /\ width = DefaultSize
    /\ height = DefaultSize
    /\ last.op = "setup"
    /\ available_grids = {}
    /\ last'.op = "suggest_available_grids"
    /\ last'.client = "dark"

\* C17: on a freshly linked and set-up 8 x 8 board (light on (3,3) and
\* (4,4), dark on (3,4) and (4,3)), suggest_available_grids('dark') returns
\* 4 and marks exactly 4 grids, each orthogonally adjacent to a grid of the
\* 2 x 2 starting block.
C17_OpeningHasFourLegalMoves ==
    [][OpeningSuggestion
          => /\ GridsIn(state', "light") = {<<3, 3>>, <<4, 4>>}
             /\ GridsIn(state', "dark") = {<<3, 4>>, <<4, 3>>}
             /\ last'.number = 4
             /\ Cardinality(GridsIn(state', "available")) = 4
             /\ available_grids' = GridsIn(state', "available")
             /\ \A g \in available_grids' :
                    \E b \in StartingBlock : OrthogonallyAdjacent(g, b)]_vars

\* C17 witness: the 8 x 8 board after the opening suggestion for dark
C17_Witness ==
    /\ width = DefaultSize
    /\ height = DefaultSize
    /\ nturns = 1
    /\ pc = "preview"
    /\ last.op = "suggest_available_grids"
    /\ last.client = "dark"
    /\ last.number = 4

\* the board is 1 x 1 or 1 x 2 (either orientation)
DegenerateBoard == width * height <= 2

\* C18: on a 1 x 1 board and on a 1 x 2 board (either orientation) setup()
\* places no disk: every grid is empty afterwards.
C18_SetupPlacesNothingOnDegenerateBoards ==
    [][(SetupStep /\ DegenerateBoard)
          => \A g \in domain : state'[g] = "none"]_vars

\* C18 amended: on a 1 x 1 board setup() places one light disk, on (0, 0);
\* on a 1 x 2 board (either orientation) it places a light disk on (0, 0)
\* and a dark disk on the other grid: only the grids of the starting block
\* that fall outside the board are skipped, and no grid is left empty.
C18_SetupFillsDegenerateBoards ==
    [][(SetupStep /\ DegenerateBoard)
          => \A g \in domain :
                state'[g] = IF g = <<0, 0>> THEN "light" ELSE "dark"]_vars

\* C18 witness: setup() has run on the board one column wide and two rows
\* high, and the second row holds the dark disk
C18_Witness ==
    /\ last.op = "setup"
    /\ width = 1
    /\ height = 2
    /\ state[<<0, 0>>] = "light"
    /\ state[<<1, 0>>] = "dark"

\* C19: on a linked 1 x 1 board and on a linked 1 x 2 board (either
\* orientation), immediately after setup(), suggest_available_grids returns
\* 0 and marks no grid, for dark and for light.
C19_NoLegalMoveOnDegenerateBoards ==
    [][(/\ DegenerateBoard
        /\ Linked
        /\ last.op = "setup"
        /\ ncalls' = ncalls + 1
        /\ last'.op = "suggest_available_grids")
          => /\ last'.number = 0
             /\ state' = state
             /\ GridsIn(state', "available") = {}
             /\ available_grids' = {}]_vars

\* C19 witness: suggest_available_grids('light') returned 0 on the linked
\* board of 2 x 1 that setup() had filled
C19_Witness ==
    /\ width = 2
    /\ height = 1
    /\ Linked
    /\ GridsIn(state, "none") = {}
    /\ last.op = "suggest_available_grids"
    /\ last.client = "light"
    /\ last.number = 0

\* the cursor is on the board
CursorWithinBoard ==
    /\ 0 <= cursor_pos[1] /\ cursor_pos[1] <= height - 1
    /\ 0 <= cursor_pos[2] /\ cursor_pos[2] <= width - 1

\* this step is a Cursor.move whose direction points off the board from the
\* position the cursor had
MoveAgainstAnEdge ==
    /\ last'.op = "move"
    /\ Target(last') = cursor_pos
    /\ <<cursor_pos[1] + last'.direction[1],
         cursor_pos[2] + last'.direction[2]>> \notin domain

\* C20: after any sequence of Cursor.move calls in any of the directions
\* n, s, e, w on a board of any size, the cursor's position satisfies
\* 0 <= row <= height - 1 and 0 <= col <= width - 1, and a move against an
\* edge leaves the position unchanged.
C20_CursorStaysOnTheBoard ==
    /\ []CursorWithinBoard
    /\ [][MoveAgainstAnEdge => cursor_pos' = cursor_pos]_vars

\* C20 witness: the cursor is in the last row and the last column of a
\* board of several rows and columns after a move south from that grid
C20_Witness ==
    /\ width >= 2
    /\ height >= 2
    /\ last.op = "move"
    /\ last.direction = <<1, 0>>
    /\ Target(last) = <<height - 1, width - 1>>
    /\ cursor_pos = <<height - 1, width - 1>>

-----------------------------------------------------------------------------
(* Claims C21 .. C30 *)

\* this step is a call of agent.place_a_disk(): it returns at once, or goes
\* on to the test of target_grid
PlaceADiskIsCalled ==
    /\ pc = "turn"
    /\ ncalls' = ncalls + 1
    /\ pc' = "placing" \/ last'.op = "place_a_disk"

\* C21: BaseAgent.place_a_disk called while the agent's start() is still
\* running (state 'busy') returns 'still busy' and changes no grid and
\* neither transient set; when it finds no chosen target it returns
\* 'target_grid is not a grid' and changes nothing.
C21_BusyOrAimlessAgentPlacesNothing ==
    [][/\ (PlaceADiskIsCalled /\ agent_state = "busy")
          => /\ pc' = "turn"
             /\ last'.op = "place_a_disk"
             /\ last'.status = status_f1
             /\ status' = status_f1
             /\ UNCHANGED <<state, available_grids, expected_captives>>
       /\ (pc = "placing" /\ pc' = "turn" /\ target_grid = NoGrid)
          => /\ last'.op = "place_a_disk"
             /\ last'.status = status_f2
             /\ status' = status_f2
             /\ UNCHANGED <<state, available_grids, expected_captives>>]_vars

\* C21 witness: place_a_disk returned 'still busy' while the thread of
\* start() held a target on a board with available grids
C21_Witness ==
    /\ last.op = "place_a_disk"
    /\ last.status = status_f1
    /\ agent_state = "busy"
    /\ thread_pc = "finishing"
    /\ target_grid \in available_grids
    /\ state[target_grid] = "available"

\* C21 witness of the second case: place_a_disk returned 'target_grid is not
\* a grid' to a free agent
C21_WitnessNoTarget ==
    /\ last.op = "place_a_disk"
    /\ last.status = status_f2
    /\ agent_state = "free"
    /\ target_grid = NoGrid

\* the thread of agent.start has been started and has not ended
ThreadIsAlive == thread_pc \in {"start", "considering", "finishing"}

\* C22: in the agent game loop no grid state and neither transient set is
\* changed by any thread while the agent's decision thread is alive: the
\* thread only reads available_grids, and the main thread calls
\* place_a_disk or clear_available_grids only after the thread has ended.
C22_BoardIsStillWhileTheAgentThinks ==
    [][ThreadIsAlive
          => UNCHANGED <<state, available_grids, expected_captives>>]_vars

\* C22 witness: the thread has chosen one of several available grids and
\* the main thread waits for it
C22_Witness ==
    /\ pc = "waiting"
    /\ thread_pc = "finishing"
    /\ agent_state = "busy"
    /\ target_grid \in available_grids
    /\ Cardinality(available_grids) >= 2

\* this step is a call of linking() on a board that linking() has linked
\* before
LinkingAgain ==
    /\ ncalls' = ncalls + 1
    /\ last'.op = "linking"
    /\ last.op = "linking" \/ neighbors # no_neighbors

\* C23: running linking() a second time on a board leaves every grid's
\* neighbour map identical to what it was after the first run.
C23_LinkingIsIdempotent ==
    [][LinkingAgain => neighbors' = neighbors]_vars

\* C23 witness: linking() has just run on a board that holds marks of
\* suggest_available_grids, which only a linked board gets
C23_Witness ==
    /\ last.op = "linking"
    /\ neighbors # no_neighbors
    /\ GridsIn(state, "available") # {}

\* C24: the number suggest_available_grids(client) returns equals the number
\* of grids in state 'available' after the call, the grids this call marked
\* and the grids that were 'available' before it counted alike.
C24_SuggestionCountsEveryMark ==
    last.op = "suggest_available_grids"
        => last.number = Cardinality(GridsIn(state, "available"))

\* C24 witness: after the call the board holds a mark on a legal
\* destination of the client and a mark, left by an earlier call, on a grid
\* that is none, and the number counts both
C24_Witness ==
    /\ last.op = "suggest_available_grids"
    /\ last.number >= 2
    /\ \E g \in GridsIn(state, "available") :
          IsLegalDestination(state, last.client, g)
    /\ \E g \in GridsIn(state, "available") :
          ~IsLegalDestination(state, last.client, g)

\* C25: in every state that a sequence of setup, suggest_available_grids,
\* clear_available_grids, suggest_expected_captives, clear_expected_captives
\* and flip_outflanked_disks reaches, available_grids is the set of the
\* grids whose state is 'available'.
C25_AvailableGridsAreTheMarkedGrids ==
    available_grids = GridsIn(state, "available")

\* the grids that hold a disk
Disks(st) == GridsIn(st, "dark") \cup GridsIn(st, "light")

\* C26: over any sequence of setup, suggest, preview and flip calls with
\* client in {dark, light}, a successful flip_outflanked_disks adds exactly
\* one disk to the board: the target is the only grid that held no disk
\* before the call and holds one after it.
C26_FlipAddsOneDisk ==
    [][FlipSucceeds =>
          /\ Cardinality(Disks(state')) = Cardinality(Disks(state)) + 1
          /\ Disks(state') \ Disks(state) = {Target(last')}]_vars

\* this step is a call of suggest_available_grids on a linked board that
\* holds no 'available' grid
SuggestionOnAnUnmarkedBoard ==
    /\ last'.op = "suggest_available_grids"
    /\ last'.status = "none"
    /\ ncalls' # ncalls \/ nturns' # nturns
    /\ Linked
    /\ GridsIn(state, "available") = {}

\* C27: when no grid is 'available' before the call,
\* suggest_available_grids(client) marks exactly the legal destinations of
\* client on the board as it was before the call: a grid marked earlier in
\* the pass counts as empty for the scans that follow, so the order of the
\* visit does not matter.
C27_MarksAreTheLegalDestinations ==
    [][SuggestionOnAnUnmarkedBoard
          => /\ GridsIn(state', "available")
                    = LegalDestinations(state, last'.client)
             /\ \A g \in domain :
                    state[g] # state'[g] => state'[g] = "available"]_vars

\* `a` comes before `b` in the row-major order of Board.domain
VisitedBefore(a, b) == a[1] < b[1] \/ (a[1] = b[1] /\ a[2] < b[2])

\* C27 witness: a suggestion has left a grid unmarked from which a run of
\* opponent disks leads to a grid the same pass had marked before, so the
\* scan met the mark and took it for an empty grid
C27_Witness ==
    /\ last.op = "suggest_available_grids"
    /\ Linked
    /\ available_grids = GridsIn(state, "available")
    /\ available_grids = LegalDestinations(state, last.client)
    /\ \E g \in GridsIn(state, "none"), d \in neighborhood, k \in 1 .. MaxRun :
          /\ Step(g, d, k + 1) \in available_grids
          /\ VisitedBefore(Step(g, d, k + 1), g)
          /\ \A n \in 1 .. k :
                /\ Step(g, d, n) \in domain
                /\ state[Step(g, d, n)] = disk_color_permutation(last.client)

\* this step is a call of suggest_available_grids(client) that follows a
\* call of suggest_available_grids with the same client
SuggestionRepeated ==
    /\ last.op = "suggest_available_grids"
    /\ last.status = "none"
    /\ last'.op = "suggest_available_grids"
    /\ last'.status = "none"
    /\ last'.client = last.client
    /\ ncalls' = ncalls + 1

\* C28: suggest_available_grids(client) called twice in a row with the same
\* client returns the same number both times; the second call changes no
\* grid state and leaves available_grids as it was.
C28_SuggestionIsIdempotent ==
    [][SuggestionRepeated
          => /\ last'.number = last.number
             /\ state' = state
             /\ available_grids' = available_grids]_vars

\* C28 witness: the same suggestion has been made twice on a linked board
\* with disks of both colours, and the marks include one the first of the
\* two calls found on the board and one it made
C28_Witness ==
    /\ last.op = "suggest_available_grids"
    /\ last.repeated
    /\ Linked
    /\ last.number >= 2
    /\ last.number = Cardinality(available_grids)
    /\ \E g \in available_grids : IsLegalDestination(state, last.client, g)
    /\ \E g \in available_grids : ~IsLegalDestination(state, last.client, g)
    /\ \E g \in domain, d \in neighborhood :
          /\ Step(g, d, 1) \in domain
          /\ state[g] = last.client
          /\ state[Step(g, d, 1)] = "none"

\* it is the player's turn in ctrls_cui_ac, the player's colour has no legal
\* destination and the colour of the agent has one
PlayerHasNoMove ==
    /\ pc \in {"preview", "input"}
    /\ Linked
    /\ LegalDestinations(state, disk_color) = {}
    /\ LegalDestinations(state, agent_disk_color) # {}

\* the turn has gone to the agent
TurnPassed == pc \in {"opponent", "waiting", "agent_place", "after_place"}

\* C29: in the game loops, when the colour to move has no legal destination
\* while the other colour has one, the turn eventually passes to the other
\* colour, with no placement and no quit needed.  Behaviours in which the
\* player quits are left aside: a violation is a game in which the player
\* keeps answering the prompt, never quits, and the turn never passes.
C29_TurnPassesWithoutAMove ==
    PlayerHasNoMove ~> (TurnPassed \/ pc = "quit")

\* this step is an iteration of the while loop of calculate_captives
WalkIterates == walk.pc = "loop" /\ walk' # walk

\* the grid the iteration is about to read: target_grid.neighbors[(i, j)]
\* is a grid, and it is in checked_grids
WalkWouldRevisit ==
    /\ walk.direction \in DOMAIN neighbors[walk.target_grid]
    /\ neighbors[walk.target_grid][walk.direction] \in walk.checked_grids

\* C30: calculate_captives terminates on every neighbour graph, cycles
\* built by arbitrary add_neighbor calls included: the loop runs at most as
\* many iterations as there are grids, an iteration that goes on moves to a
\* grid it had not met and adds it to checked_grids, and an iteration that
\* would come back to a met grid returns the empty set.  What it returns is
\* what the one-piece translation calculate_captives gives.
C30_WalkTerminates ==
    /\ [](walk.pc # "idle"
            => /\ walk.iterations <= Cardinality(domain)
               /\ walk.checked_grids \subseteq domain
               /\ Cardinality(walk.checked_grids) <= walk.iterations + 1
               /\ walk.pc = "loop"
                    => Cardinality(walk.checked_grids) = walk.iterations + 1
               /\ walk.pc = "returned"
                    => walk.in_between_opponents
                         = calculate_captives(state, walk.client,
                                              walk.opponent, walk.grid,
                                              walk.direction))
    /\ [][WalkIterates
            => /\ walk'.iterations = walk.iterations + 1
               /\ walk'.pc \in {"loop", "returned"}
               /\ walk'.pc = "loop"
                    => /\ walk'.target_grid \notin walk.checked_grids
                       /\ walk'.checked_grids
                            = walk.checked_grids \cup {walk'.target_grid}
               /\ WalkWouldRevisit
                    => /\ walk'.pc = "returned"
                       /\ walk'.in_between_opponents = {}]_vars

\* C30 witness: on a cycle through all of three Grid objects, two of them
\* opponents, the walk has gone round, met the grid it started from and
\* returned the empty set after as many iterations as there are grids
C30_Witness ==
    /\ walk.pc = "returned"
    /\ Cardinality(domain) = 3
    /\ walk.iterations = 3
    /\ walk.checked_grids = domain
    /\ WalkWouldRevisit
    /\ neighbors[walk.target_grid][walk.direction] = walk.grid
    /\ walk.target_grid # walk.grid
    /\ walk.in_between_opponents = {}

====
